---------------------------- MODULE Spec2Model ----------------------------
(***************************************************************************)
(* Model of the emotion-powered chatbot: the FaceDetection component (the  *)
(* detection loop and its confidence gate), the App component (the shared  *)
(* current emotion) and the ChatInterface component (the chat dispatcher   *)
(* and the dictation controller).                                          *)
(*                                                                         *)
(* Granularity.  The program is single threaded: every event handler, timer*)
(* callback and promise continuation runs to completion, so each is one    *)
(* action.  The state variables hold the React state with every update     *)
(* that was made applied; rendered holds the state as the last committed   *)
(* render read it, which is what the closures and the elements of that     *)
(* render show.  An update made in a React event handler (click, change,   *)
(* submit, play) is rendered and committed, and the effects of that render *)
(* run, before the next event: that commit is part of the handler's action *)
(* and covers the updates the handler made.  A handler that makes no       *)
(* update, or only updates that React drops, renders nothing and leaves    *)
(* the waiting effects waiting.  An update made anywhere else              *)
(* (recognizer callbacks, timers, promise continuations, effects) is       *)
(* rendered in a later task, the action Render, and the effects of that    *)
(* render run later still, the action Effects; until then every handler    *)
(* is the one of the previous render.  The closures that outlive a render  *)
(* are modelled with the values they captured: the recognizer handlers     *)
(* bound once by the mount effect, the onend handler re-bound by an        *)
(* effect, timer callbacks, and the detectFaces loop.                      *)
(***************************************************************************)
EXTENDS Integers, Sequences, FiniteSets, TLC

(***************************************************************************)
(* Bounds of the model.                                                    *)
(***************************************************************************)
\* Labels of the expression mapping that are modelled (a prefix of LabelOrder).
NumLabels == 3
\* Longest stored transcript at which a further submission is still explored.
MaxHistory == 2
\* Longest input text the dictation result handler is explored with.
MaxInputLen == 3
\* Most permission requests, or timers of one kind, pending at a time.
MaxPending == 1
\* Most detectFaces loops alive at a time.
MaxChains == 2

(***************************************************************************)
(* Program constants.                                                      *)
(***************************************************************************)
\* The confidence gate 0.5, in tenths (scores are tenths of the unit).
Threshold == 5

Null == "null"

\* Iteration order of Object.entries(detection.expressions).
LabelOrder == <<"neutral", "happy", "sad", "angry", "fearful", "disgusted", "surprised">>
Labels == {LabelOrder[i] : i \in 1..NumLabels}

\* Scores 0.0 .. 1.0 in tenths.
Scores == 0 .. (2 * Threshold)
\* Scores the detection loop is explored with: at the gate and just above it.
FrameScores == {Threshold, Threshold + 1}

(***************************************************************************)
(* Text: a string is a sequence of characters.                             *)
(***************************************************************************)
SP == " "

RECURSIVE TrimStart(_)
TrimStart(s) == IF s # <<>> /\ Head(s) = SP THEN TrimStart(Tail(s)) ELSE s

RECURSIVE TrimEnd(_)
TrimEnd(s) == IF s # <<>> /\ s[Len(s)] = SP THEN TrimEnd(SubSeq(s, 1, Len(s) - 1)) ELSE s

\* String.prototype.trim
Trim(s) == TrimEnd(TrimStart(s))

\* Texts the user types, and raw transcripts the recognizer delivers.
TypedTexts == {<<>>, <<SP>>, <<"a">>}
Transcripts == {<<SP, "b", SP>>}
\* result.response values of a well-formed body (the empty string included).
ResponseTexts == {<<>>, <<"H", "i">>}

Fallback == <<"Sorry, I had trouble processing your request. Please try again.">>

\* `... Currently the user is ${currentEmotion || 'neutral'}!`
SystemPrompt(emotion) ==
    << "You are an emotion powered chatbot. Your responses are influenced by the user emotions. Currently the user is ",
       IF emotion = Null THEN "neutral" ELSE emotion,
       "!" >>

(***************************************************************************)
(* The dominant expression (FaceDetection.tsx, detectFaces).               *)
(***************************************************************************)
\* Object.entries(expressions): the [label, score] pairs in iteration order.
\* A mapping is held as the sequence of its scores, in that order.
Entries(scores) == [i \in 1..Len(scores) |-> <<LabelOrder[i], scores[i]>>]

\* A comparator that keeps the earlier entry on equal scores.
KeepsOnTie(prev, current) == IF prev[2] >= current[2] THEN prev ELSE current

\* A comparator that selects the smaller score.
PicksSmaller(prev, current) == IF prev[2] < current[2] THEN prev ELSE current

\* (prev, current) => prev[1] > current[1] ? prev : current
Comparator(prev, current) == IF prev[2] > current[2] THEN prev ELSE current

\* Array.prototype.reduce without an initial value, over the first n entries.
RECURSIVE Reduce(_, _)
Reduce(entries, n) ==
    IF n = 1 THEN entries[1]
    ELSE Comparator(Reduce(entries, n - 1), entries[n])

\* dominantExpression of a non-empty mapping.
Dominant(scores) == Reduce(Entries(scores), Len(scores))

\* A gate that also promotes a score equal to the threshold.
GateAtThreshold(score) == score >= Threshold

\* A promotion with no test of the score.
NoGate(score) == TRUE

\* if (dominantExpression[1] > 0.5)
Confident(score) == score > Threshold


VARIABLES
    \* App
    currentEmotion,
    \* ChatInterface: chat dispatcher
    messages, input, isLoading, requests, settled,
    \* ChatInterface: dictation controller
    speechSupported, isListening, networkError, permissionError,
    recognition, onend, micPending, startTimers, restartTimers,
    retryTimer, nestedTimers, mounted, explicitStop, submitStop,
    \* FaceDetection
    isModelLoading, error, camListPending, isStreamActive, srcObject,
    camPending, playPending, chain, animationRef, detectedEmotion,
    detections, expressions, dominantExpression,
    \* Media streams handed out by getUserMedia
    strayCamera, micLive,
    \* ThemeContext
    theme,
    \* React: the state as the last committed render read it, and the
    \* effects of that render that have not run yet
    rendered, passive

chatVars == <<messages, input, isLoading, requests, settled>>
\* mounted: the component tree has not been unmounted.
\* explicitStop: the last toggle of dictation took the stop branch.
\* submitStop: the stop() call of sendMessage was made on the running session
\* and the recognizer has delivered no event since.
dictVars == <<speechSupported, isListening, networkError, permissionError,
              recognition, onend, micPending, startTimers, restartTimers,
              retryTimer, nestedTimers, mounted, explicitStop, submitStop>>
detectVars == <<isModelLoading, error, camListPending, isStreamActive, srcObject,
                camPending, playPending, chain, animationRef, detectedEmotion>>
frameVars == <<detections, expressions, dominantExpression>>
\* strayCamera: a camera stream that is not the video element's srcObject
\* has live tracks.  micLive: a microphone stream has live tracks.
deviceVars == <<strayCamera, micLive>>
reactVars == <<rendered, passive>>
vars == <<currentEmotion, chatVars, dictVars, detectVars, frameVars,
          deviceVars, theme, reactVars>>


(***************************************************************************)
(* Initial state: the state after the first render and the mount effects.  *)
(***************************************************************************)
NoChain == [phase |-> "none", active |-> FALSE]

\* The value of isListening that the handlers bound by the mount effect
\* (onerror and its retry timer) captured: useState(false).
MountIsListening == FALSE

\* settled holds what the awaits of the request completed last produced
\* (response and data of sendMessage); before the first completion, nothing.
NoOutcome == [kind |-> "none", response |-> <<>>]

\* No effect is waiting to run.
NoEffects == [rebind |-> FALSE, notify |-> FALSE]

\* What a render reads: the state of App (currentEmotion, handed to
\* ChatInterface as a prop), of ChatInterface and of FaceDetection.
View ==
    [ currentEmotion |-> currentEmotion,
      messages |-> messages, input |-> input, isLoading |-> isLoading,
      isListening |-> isListening, networkError |-> networkError,
      permissionError |-> permissionError,
      isModelLoading |-> isModelLoading, error |-> error,
      isStreamActive |-> isStreamActive, detectedEmotion |-> detectedEmotion ]

\* useState<string | null>(null).  The theme the page opens with is decided
\* by the theme context, which is not among the sources; light is taken.
InitApp == currentEmotion = Null /\ theme = "light"

InitChat ==
    /\ messages = <<>>
    /\ input = <<>>
    /\ isLoading = FALSE
    /\ requests = <<>>
    /\ settled = NoOutcome

InitDictation ==
    /\ speechSupported \in BOOLEAN
    /\ isListening = FALSE
    /\ networkError = FALSE
    /\ permissionError = Null
    /\ recognition = "off"
    /\ onend = [isListening |-> FALSE, networkError |-> FALSE]
    /\ micPending = 0
    /\ startTimers = 0
    /\ restartTimers = [c \in BOOLEAN |-> 0]
    /\ retryTimer = FALSE
    /\ nestedTimers = 0
    /\ mounted = TRUE
    /\ explicitStop = FALSE
    /\ submitStop = FALSE

InitDetection ==
    /\ isModelLoading = TRUE
    /\ error = Null
    /\ camListPending = FALSE
    /\ isStreamActive = FALSE
    /\ srcObject = FALSE
    /\ camPending = 0
    /\ playPending = FALSE
    /\ chain = [c \in 1..MaxChains |-> NoChain]
    /\ animationRef = 0
    /\ detectedEmotion = Null

InitFrame ==
    /\ detections = "none"
    /\ expressions = <<>>
    /\ dominantExpression = <<>>

InitDevices ==
    /\ strayCamera = FALSE
    /\ micLive = FALSE

InitRendered ==
    /\ rendered = View
    /\ passive = NoEffects

Init ==
    /\ InitApp /\ InitChat /\ InitDictation /\ InitDetection /\ InitFrame
    /\ InitDevices /\ InitRendered

(***************************************************************************)
(* React: rendering.  A state update made in a React event handler (click, *)
(* change, submit, play) is rendered, committed and its effects run before *)
(* the handler's event is over.  An update made anywhere else (recognizer  *)
(* callback, timer, promise continuation, effect) waits for Render, and    *)
(* the effects of that render wait for Effects; callbacks that run in      *)
(* between meet the handlers and closures of the previous render.          *)
(* Two decisions are React's and depend on bookkeeping of its own that the *)
(* program does not show: whether the effects of a render wait for a later *)
(* task or run in the task of the render, and whether set-state calls that *)
(* change nothing are dropped or rendered.  Either outcome is a step.      *)
(***************************************************************************)
\* The effect of ChatInterface that re-binds recognition.onend after a commit
\* in which isListening or networkError changed: the handler tests the values
\* of the render the effect belongs to.
Rebind ==
    onend' = [isListening |-> rendered'.isListening,
              networkError |-> rendered'.networkError]

\* The effect of FaceDetection that runs after a commit in which
\* detectedEmotion changed: if (detectedEmotion) onEmotionDetected(..), which
\* is App.handleEmotionDetected, setCurrentEmotion.
NotifyEffect(detected, current) == IF detected # Null THEN detected ELSE current

\* React renders the pending updates and commits.  The effects of the
\* previous commit have run by then.  The effects of this commit wait, or
\* run in the same task.  Nothing is rendered after the unmount.
Render ==
    /\ mounted
    /\ passive = NoEffects
    /\ rendered # View
    /\ rendered' = View
    /\ LET due == [rebind |-> (isListening # rendered.isListening
                                 \/ networkError # rendered.networkError),
                   notify |-> detectedEmotion # rendered.detectedEmotion]
       IN \/ /\ passive' = due
             /\ UNCHANGED <<onend, currentEmotion>>
          \/ /\ passive' = NoEffects
             /\ IF due.rebind THEN Rebind ELSE UNCHANGED onend
             /\ currentEmotion' = IF due.notify
                                  THEN NotifyEffect(detectedEmotion, currentEmotion)
                                  ELSE currentEmotion
    /\ UNCHANGED <<chatVars, speechSupported, isListening, networkError,
                   permissionError, recognition, micPending, startTimers,
                   restartTimers, retryTimer, nestedTimers, mounted,
                   explicitStop, submitStop, detectVars, frameVars, deviceVars,
                   theme>>

\* The effects of the last commit run.
Effects ==
    /\ mounted
    /\ passive # NoEffects
    /\ passive' = NoEffects
    /\ UNCHANGED rendered
    /\ IF passive.rebind THEN Rebind ELSE UNCHANGED onend
    /\ currentEmotion' = IF passive.notify
                         THEN NotifyEffect(rendered.detectedEmotion, currentEmotion)
                         ELSE currentEmotion
    /\ UNCHANGED <<chatVars, speechSupported, isListening, networkError,
                   permissionError, recognition, micPending, startTimers,
                   restartTimers, retryTimer, nestedTimers, mounted,
                   explicitStop, submitStop, detectVars, frameVars, deviceVars,
                   theme>>

\* The render a React event handler ends with.  The effects still waiting
\* run first, on the render they belong to; then the handler's updates are
\* committed (rendered') and the effects of that commit run: the onend
\* re-binding if isListening or networkError changed.
Commit ==
    /\ passive' = NoEffects
    /\ currentEmotion' = IF passive.notify
                         THEN NotifyEffect(rendered.detectedEmotion, currentEmotion)
                         ELSE currentEmotion
    /\ IF \/ passive.rebind
          \/ rendered'.isListening # rendered.isListening
          \/ rendered'.networkError # rendered.networkError
       THEN Rebind
       ELSE UNCHANGED onend

\* A React event handler that is not followed by a render: the waiting
\* effects keep waiting.
NoCommit == UNCHANGED <<rendered, passive, currentEmotion, onend>>

\* onClick of ThemeToggle: toggleTheme of the theme context, which App reads
\* (useTheme), so App and the components below it are rendered again.
toggleTheme ==
    /\ mounted
    /\ theme' = IF theme = "dark" THEN "light" ELSE "dark"
    /\ UNCHANGED rendered
    /\ Commit
    /\ UNCHANGED <<chatVars, speechSupported, isListening, networkError,
                   permissionError, recognition, micPending, startTimers,
                   restartTimers, retryTimer, nestedTimers, mounted,
                   explicitStop, submitStop, detectVars, frameVars, deviceVars>>

(***************************************************************************)
(* ChatInterface: the chat dispatcher.                                     *)
(***************************************************************************)
\* A test for the empty text that does not trim.
IsEmpty(s) == s = <<>>

\* !input.trim()
IsBlank(s) == Trim(s) = <<>>

\* A submit control that is disabled only for an empty input.
DisabledWhenEmptyOnly == IsBlank(rendered.input)

\* disabled={isLoading || !input.trim()} on the submit button; the text input
\* itself is disabled={isLoading}.  A form is submitted only through them.
SubmitDisabled == rendered.isLoading \/ IsBlank(rendered.input)

\* SpeechRecognition.stop(): a started session stops listening and will end.
StopCall(r) == IF r = "on" THEN "stopping" ELSE r

\* onChange={(e) => setInput(e.target.value)}
Type(t) ==
    /\ mounted /\ ~rendered.isLoading
    /\ t # rendered.input
    /\ input' = t
    /\ rendered' = [rendered EXCEPT !.input = t]
    /\ Commit
    /\ UNCHANGED <<messages, isLoading, requests, settled, speechSupported,
                   isListening, networkError, permissionError, recognition,
                   micPending, startTimers, restartTimers, retryTimer,
                   nestedTimers, mounted, explicitStop, submitStop, detectVars,
                   frameVars, deviceVars, theme>>

\* The system message of an outgoing request.
SystemMessage(emotion) == [role |-> "system", content |-> SystemPrompt(emotion)]

\* A body that carries no history.
PayloadWithoutHistory(emotion, history, userMessage) ==
    <<SystemMessage(emotion), userMessage>>

\* The body of the request: system message, history without system
\* messages, the new user message.
Payload(emotion, history, userMessage) ==
    <<SystemMessage(emotion)>>
        \o SelectSeq(history, LAMBDA m : m.role # "system")
        \o <<userMessage>>

\* A submission that also stores the system message it sends.
StoredWithSystem(prev, systemMessage, userMessage) ==
    prev \o <<systemMessage, userMessage>>

\* setMessages((prev) => [...prev, userMessage]): of the two messages a
\* submission builds, the transcript takes the user message only.
Stored(prev, systemMessage, userMessage) == Append(prev, userMessage)

\* onSubmit of the form: sendMessage up to its first await.  input,
\* isListening, messages and currentEmotion are those of the render the
\* handler belongs to.
sendMessage ==
    /\ mounted /\ ~SubmitDisabled
    /\ ~IsBlank(rendered.input)
    /\ Len(messages) <= MaxHistory
    /\ LET userMessage == [role |-> "user", content |-> rendered.input]
           systemMessage == SystemMessage(rendered.currentEmotion)
           stops == rendered.isListening /\ speechSupported
       IN /\ messages' = Stored(messages, systemMessage, userMessage)
          /\ requests' = Append(requests,
                                Payload(rendered.currentEmotion, rendered.messages,
                                        userMessage))
          /\ input' = <<>>
          /\ isLoading' = TRUE
          /\ IF stops
             THEN /\ recognition' = StopCall(recognition)
                  /\ isListening' = FALSE
                  /\ submitStop' = (submitStop \/ recognition = "on")
             ELSE UNCHANGED <<recognition, isListening, submitStop>>
          /\ rendered' = [rendered EXCEPT !.messages = messages',
                                          !.input = <<>>,
                                          !.isLoading = TRUE,
                                          !.isListening = IF stops THEN FALSE ELSE @]
    /\ Commit
    /\ UNCHANGED <<settled, speechSupported, networkError, permissionError,
                   micPending, startTimers, restartTimers, retryTimer,
                   nestedTimers, mounted, explicitStop, detectVars, frameVars,
                   deviceVars, theme>>

\* What the awaited fetch and response.json() can produce.
\* fetch rejects; a status that is not 2xx; a body that is not JSON; a body
\* without result; a result without response; a body with result.response.
FailureKinds == {"reject", "status", "badjson", "noresult", "noresponse"}
Outcomes == [kind : FailureKinds, response : {<<>>}]
                \cup [kind : {"ok"}, response : ResponseTexts]

\* A test that accepts every body that parsed, whatever its shape.
AnyBodySucceeds(outcome) == outcome.kind \notin {"reject", "status", "badjson"}

\* A test that reads data.response, a field no body has.
ReadsWrongField(outcome) == FALSE

\* response.ok, then data.result && data.result.response (a non-empty text).
Succeeds(outcome) == outcome.kind = "ok" /\ outcome.response # <<>>

\* A continuation that leaves the busy flag set when the request failed.
BusyAfterFailure(outcome) == ~Succeeds(outcome)

\* finally { setIsLoading(false) }
BusyAfter(outcome) == FALSE

\* The continuation of sendMessage after the awaits, for in-flight request i.
Respond(i, outcome) ==
    /\ i \in 1..Len(requests)
    /\ requests' = SubSeq(requests, 1, i - 1) \o SubSeq(requests, i + 1, Len(requests))
    /\ messages' = Append(messages,
                          [role |-> "assistant",
                           content |-> IF Succeeds(outcome) THEN outcome.response ELSE Fallback])
    /\ isLoading' = BusyAfter(outcome)
    /\ settled' = outcome
    /\ UNCHANGED <<currentEmotion, input, dictVars, detectVars,
                   frameVars, deviceVars, rendered, passive, theme>>

\* A clear that also resets the input and the busy flag.
resetChat ==
    /\ mounted /\ Len(rendered.messages) > 0
    /\ messages' = <<>>
    /\ input' = <<>>
    /\ isLoading' = FALSE
    /\ rendered' = [rendered EXCEPT !.messages = <<>>, !.input = <<>>,
                                    !.isLoading = FALSE]
    /\ Commit
    /\ UNCHANGED <<requests, settled, speechSupported, isListening,
                   networkError, permissionError, recognition, micPending,
                   startTimers, restartTimers, retryTimer, nestedTimers,
                   mounted, explicitStop, submitStop, detectVars, frameVars,
                   deviceVars, theme>>

\* onClick of the Clear button, rendered while messages.length > 0.
\* setMessages([]) is a new array: a change even of an empty transcript.
clearChat ==
    /\ mounted /\ Len(rendered.messages) > 0
    /\ messages' = <<>>
    /\ rendered' = [rendered EXCEPT !.messages = <<>>]
    /\ Commit
    /\ UNCHANGED <<input, isLoading, requests, settled, speechSupported,
                   isListening, networkError, permissionError, recognition,
                   micPending, startTimers, restartTimers, retryTimer,
                   nestedTimers, mounted, explicitStop, submitStop, detectVars,
                   frameVars, deviceVars, theme>>

(***************************************************************************)
(* ChatInterface: the dictation controller.                                *)
(* recognition is the browser's recognizer session: "off", "on" (started), *)
(* "stopping" (stop() called: a final result may still come, then end),    *)
(* "ending" (a result or an error was delivered: end follows).             *)
(***************************************************************************)
ErrorKinds == {"not-allowed", "no-speech", "network", "audio-capture"}

\* prev ? `${prev} ${trimmedTranscript}` : trimmedTranscript
Join(prev, transcript) ==
    IF prev # <<>> THEN prev \o <<SP>> \o Trim(transcript) ELSE Trim(transcript)

\* onClick of the microphone button; isListening is that of the render the
\* handler belongs to.  When no error is set or shown the two resets change
\* nothing, and in the start branch React either drops them and renders
\* nothing, or renders.
toggleListening ==
    /\ mounted /\ speechSupported
    /\ permissionError' = Null
    /\ networkError' = FALSE
    /\ IF rendered.isListening
       THEN /\ recognition' = StopCall(recognition)
            /\ isListening' = FALSE
            /\ explicitStop' = TRUE
            /\ rendered' = [rendered EXCEPT !.permissionError = Null,
                                            !.networkError = FALSE,
                                            !.isListening = FALSE]
            /\ Commit
            /\ UNCHANGED <<micPending, submitStop>>
       ELSE /\ micPending < MaxPending
            /\ micPending' = micPending + 1
            /\ explicitStop' = FALSE
            /\ submitStop' = FALSE
            /\ \/ /\ permissionError = Null /\ ~networkError
                  /\ rendered.permissionError = Null
                  /\ ~rendered.networkError
                  /\ NoCommit
               \/ /\ rendered' = [rendered EXCEPT !.permissionError = Null,
                                                    !.networkError = FALSE]
                  /\ Commit
            /\ UNCHANGED <<recognition, isListening>>
    /\ UNCHANGED <<chatVars, speechSupported, startTimers, restartTimers,
                   retryTimer, nestedTimers, mounted, detectVars, frameVars,
                   deviceVars, theme>>

\* getUserMedia({ audio: true }) resolved: the start is put on a 100 ms timer.
\* The stream the promise resolved with is dropped, its tracks live.
MicGranted ==
    /\ micPending > 0
    /\ startTimers < MaxPending
    /\ micPending' = micPending - 1
    /\ startTimers' = startTimers + 1
    /\ micLive' = TRUE
    /\ UNCHANGED <<currentEmotion, chatVars, speechSupported, isListening,
                   networkError, permissionError, recognition, onend,
                   restartTimers, retryTimer, nestedTimers, mounted,
                   explicitStop, submitStop, detectVars, frameVars,
                   strayCamera, reactVars, theme>>

\* A rejection that is only logged.
DeniedSilently ==
    /\ micPending > 0
    /\ micPending' = micPending - 1
    /\ isListening' = FALSE
    /\ UNCHANGED <<currentEmotion, chatVars, speechSupported, networkError,
                   permissionError, recognition, onend, startTimers,
                   restartTimers, retryTimer, nestedTimers, mounted,
                   explicitStop, submitStop, detectVars, frameVars,
                   deviceVars, rendered, passive, theme>>

\* getUserMedia rejected.
MicDenied ==
    /\ micPending > 0
    /\ micPending' = micPending - 1
    /\ permissionError' = "denied-settings"
    /\ isListening' = FALSE
    /\ UNCHANGED <<currentEmotion, chatVars, speechSupported, networkError,
                   recognition, onend, startTimers, restartTimers, retryTimer,
                   nestedTimers, mounted, explicitStop, submitStop,
                   detectVars, frameVars, deviceVars, rendered,
                   passive, theme>>

\* The 100 ms timer of toggleListening: start() throws on a session that has
\* not ended, and the statement after it is then not reached.
StartTimerFire ==
    /\ startTimers > 0
    /\ startTimers' = startTimers - 1
    /\ IF recognition = "off"
       THEN recognition' = "on" /\ isListening' = TRUE
       ELSE UNCHANGED <<recognition, isListening>>
    /\ UNCHANGED <<currentEmotion, chatVars, speechSupported, networkError,
                   permissionError, onend, micPending, restartTimers,
                   retryTimer, nestedTimers, mounted, explicitStop,
                   submitStop, detectVars, frameVars, deviceVars, rendered,
                   passive, theme>>

\* recognition.onresult
RecResult(transcript) ==
    /\ recognition \in {"on", "stopping"}
    /\ Len(Join(input, transcript)) <= MaxInputLen
    /\ recognition' = "ending"
    /\ input' = Join(input, transcript)
    /\ networkError' = FALSE
    /\ submitStop' = FALSE
    /\ UNCHANGED <<currentEmotion, messages, isLoading, requests, settled,
                   speechSupported, isListening, permissionError, onend,
                   micPending, startTimers, restartTimers, retryTimer,
                   nestedTimers, mounted, explicitStop, detectVars,
                   frameVars, deviceVars, rendered, passive, theme>>

\* recognition.onerror
RecError(kind) ==
    /\ recognition \in {"on", "stopping"}
    /\ recognition' = "ending"
    /\ IF kind = "network"
       THEN /\ networkError' = TRUE
            /\ permissionError' = "network"
            /\ retryTimer' = TRUE
            /\ UNCHANGED isListening
       ELSE /\ permissionError' = IF kind = "not-allowed" THEN "denied-permissions"
                                  ELSE permissionError
            /\ isListening' = FALSE
            /\ UNCHANGED <<networkError, retryTimer>>
    /\ submitStop' = FALSE
    /\ UNCHANGED <<currentEmotion, chatVars, speechSupported, onend, micPending,
                   startTimers, restartTimers, nestedTimers, mounted,
                   explicitStop, detectVars, frameVars, deviceVars, rendered,
                   passive, theme>>

\* The recognizer session ends: recognition.onend as last re-bound.
RecEnd ==
    /\ recognition \in {"on", "stopping", "ending"}
    /\ recognition' = "off"
    /\ IF onend.isListening /\ ~onend.networkError
       THEN /\ restartTimers[onend.isListening] < MaxPending
            /\ restartTimers' = [restartTimers EXCEPT ![onend.isListening] = @ + 1]
            /\ UNCHANGED isListening
       ELSE /\ isListening' = FALSE
            /\ UNCHANGED restartTimers
    /\ submitStop' = FALSE
    /\ UNCHANGED <<currentEmotion, chatVars, speechSupported, networkError,
                   permissionError, onend, micPending, startTimers, retryTimer,
                   nestedTimers, mounted, explicitStop, detectVars,
                   frameVars, deviceVars, rendered, passive, theme>>

\* The 300 ms timers: <<"onend", c>> is the restart timer of onend, whose
\* callback captured isListening = c; <<"retry", c>> is the restart timer
\* nested in the network retry.
Pending300 ==
    {<<"onend", c>> : c \in {b \in BOOLEAN : restartTimers[b] > 0}}
        \cup (IF nestedTimers > 0 THEN {<<"retry", MountIsListening>>} ELSE {})

RestartTimerFire ==
    \E t \in Pending300 :
        /\ IF t[1] = "onend"
           THEN /\ restartTimers' = [restartTimers EXCEPT ![t[2]] = @ - 1]
                /\ recognition' = IF t[2] /\ recognition = "off" THEN "on" ELSE recognition
                /\ UNCHANGED <<nestedTimers, networkError, permissionError>>
           ELSE /\ nestedTimers' = nestedTimers - 1
                /\ IF recognition = "off"
                   THEN /\ recognition' = "on"
                        /\ networkError' = FALSE
                        /\ permissionError' = Null
                   ELSE UNCHANGED <<recognition, networkError, permissionError>>
                /\ UNCHANGED restartTimers
        /\ UNCHANGED <<currentEmotion, chatVars, speechSupported, isListening,
                       onend, micPending, startTimers, retryTimer, mounted,
                       explicitStop, submitStop, detectVars, frameVars,
                       deviceVars, rendered, passive, theme>>

\* The 2000 ms retry timer of onerror.
RetryTimerFire ==
    /\ retryTimer
    /\ retryTimer' = FALSE
    /\ IF MountIsListening
       THEN /\ recognition' = StopCall(recognition)
            /\ nestedTimers' = nestedTimers + 1
       ELSE UNCHANGED <<recognition, nestedTimers>>
    /\ UNCHANGED <<currentEmotion, chatVars, speechSupported, isListening,
                   networkError, permissionError, onend, micPending, startTimers,
                   restartTimers, mounted, explicitStop, submitStop,
                   detectVars, frameVars, deviceVars, reactVars, theme>>

\* The cleanup of the mount effect of ChatInterface.  The recognizer, its
\* handlers and the pending timers outlive it; the state variables then
\* record the set-state calls those callbacks still make, which no render
\* follows.
TeardownChat ==
    /\ recognition' = IF speechSupported THEN StopCall(recognition) ELSE recognition
    /\ retryTimer' = FALSE

(***************************************************************************)
(* FaceDetection.                                                          *)
(***************************************************************************)
\* A render without the early returns for the error and loading screens.
AlwaysMounted == TRUE

\* The video, canvas and container elements are in the document (their refs
\* are set) only after a commit of the main render: not while loading, not
\* on the error screen, not after the unmount.
VideoMounted == mounted /\ ~rendered.isModelLoading /\ rendered.error = Null

\* loadModels: the three nets loaded.
ModelsLoaded ==
    /\ isModelLoading /\ error = Null
    /\ isModelLoading' = FALSE
    /\ camListPending' = TRUE
    /\ UNCHANGED <<currentEmotion, chatVars, dictVars, error, isStreamActive,
                   srcObject, camPending, playPending, chain, animationRef,
                   detectedEmotion, frameVars, deviceVars, reactVars, theme>>

\* loadModels: a net failed to load.
ModelsFailed ==
    /\ isModelLoading /\ error = Null
    /\ error' = "models"
    /\ UNCHANGED <<currentEmotion, chatVars, dictVars, isModelLoading,
                   camListPending, isStreamActive, srcObject, camPending,
                   playPending, chain, animationRef, detectedEmotion,
                   frameVars, deviceVars, reactVars, theme>>

\* loadCameras: enumerateDevices resolved or rejected.
CamerasListed(ok) ==
    /\ camListPending
    /\ camListPending' = FALSE
    /\ error' = IF ok THEN error ELSE "cameras"
    /\ UNCHANGED <<currentEmotion, chatVars, dictVars, isModelLoading,
                   isStreamActive, srcObject, camPending, playPending, chain,
                   animationRef, detectedEmotion, frameVars, deviceVars,
                   reactVars, theme>>

\* cancelAnimationFrame(animationRef.current): the handle is that of the
\* frame last requested by loop c, pending only while c waits for it.
Cancel(ch, c) == IF ch[c].phase = "raf" THEN [ch EXCEPT ![c] = NoChain] ELSE ch

\* stopVideo, called from a click handler.  Without a stream attached it
\* sets no state.
stopVideo ==
    IF VideoMounted /\ srcObject
    THEN /\ srcObject' = FALSE
         /\ isStreamActive' = FALSE
         /\ playPending' = FALSE
         /\ IF animationRef # 0
            THEN chain' = Cancel(chain, animationRef) /\ animationRef' = 0
            ELSE UNCHANGED <<chain, animationRef>>
         /\ rendered' = [rendered EXCEPT !.isStreamActive = FALSE]
         /\ Commit
    ELSE /\ UNCHANGED <<srcObject, isStreamActive, playPending, chain,
                        animationRef>>
         /\ NoCommit

\* The cleanup of the mount effect of FaceDetection.  It runs with the refs
\* of the elements already detached, so its stopVideo() finds no video
\* element and does nothing; animationRef keeps the handle.
TeardownDetection ==
    /\ chain' = IF animationRef # 0 THEN Cancel(chain, animationRef) ELSE chain
    /\ UNCHANGED <<srcObject, isStreamActive, playPending, animationRef>>

\* App is unmounted, and ChatInterface and FaceDetection with it: the
\* effects still waiting run, then the cleanups.
Unmount ==
    /\ mounted
    /\ mounted' = FALSE
    /\ UNCHANGED rendered
    /\ Commit
    /\ TeardownChat
    /\ TeardownDetection
    /\ UNCHANGED <<chatVars, speechSupported, isListening, networkError,
                   permissionError, micPending, startTimers, restartTimers,
                   nestedTimers, explicitStop, submitStop, isModelLoading,
                   error, camListPending, camPending, detectedEmotion,
                   frameVars, deviceVars, theme>>

\* onClick of the button while it renders as Stop.
StopClick ==
    /\ VideoMounted /\ rendered.isStreamActive
    /\ stopVideo
    /\ UNCHANGED <<chatVars, speechSupported, isListening, networkError,
                   permissionError, recognition, micPending, startTimers,
                   restartTimers, retryTimer, nestedTimers, mounted,
                   explicitStop, submitStop, isModelLoading, error,
                   camListPending, camPending, detectedEmotion, frameVars,
                   deviceVars, theme>>

\* onClick of the button while it renders as Start: startVideo up to its
\* await.
StartClick ==
    /\ VideoMounted /\ ~rendered.isStreamActive
    /\ camPending < MaxPending
    /\ stopVideo
    /\ camPending' = camPending + 1
    /\ UNCHANGED <<chatVars, speechSupported, isListening, networkError,
                   permissionError, recognition, micPending, startTimers,
                   restartTimers, retryTimer, nestedTimers, mounted,
                   explicitStop, submitStop, isModelLoading, error,
                   camListPending, detectedEmotion, frameVars, deviceVars,
                   theme>>

\* startVideo after getUserMedia resolved.  The new stream replaces the
\* srcObject, whose tracks are not stopped here; without a video element it
\* is dropped.
CameraGranted ==
    /\ camPending > 0
    /\ camPending' = camPending - 1
    /\ IF VideoMounted
       THEN /\ srcObject' = TRUE /\ playPending' = TRUE /\ isStreamActive' = TRUE
            /\ strayCamera' = (strayCamera \/ srcObject)
       ELSE /\ UNCHANGED <<srcObject, playPending, isStreamActive>>
            /\ strayCamera' = TRUE
    /\ UNCHANGED <<currentEmotion, chatVars, dictVars, isModelLoading, error,
                   camListPending, chain, animationRef, detectedEmotion,
                   frameVars, micLive, reactVars, theme>>

\* startVideo after getUserMedia rejected.
CameraDenied ==
    /\ camPending > 0
    /\ camPending' = camPending - 1
    /\ error' = "webcam"
    /\ UNCHANGED <<currentEmotion, chatVars, dictVars, isModelLoading,
                   camListPending, isStreamActive, srcObject, playPending, chain,
                   animationRef, detectedEmotion, frameVars, deviceVars,
                   reactVars, theme>>

\* The video's play event: handleVideoPlay and the first call of the
\* detectFaces it defines, which captures the isStreamActive of the render
\* the handler belongs to.  updateDimensions sets displaySize to a new
\* object, so the handler always ends with a render.
Play ==
    /\ VideoMounted
    /\ playPending
    /\ playPending' = FALSE
    /\ IF rendered.isStreamActive
       THEN \E c \in 1..MaxChains :
                /\ chain[c] = NoChain
                /\ \A d \in 1..(c - 1) : chain[d] # NoChain
                /\ chain' = [chain EXCEPT ![c] = [phase |-> "infer",
                                                  active |-> rendered.isStreamActive]]
       ELSE UNCHANGED chain
    /\ UNCHANGED rendered
    /\ Commit
    /\ UNCHANGED <<chatVars, speechSupported, isListening, networkError,
                   permissionError, recognition, micPending, startTimers,
                   restartTimers, retryTimer, nestedTimers, mounted,
                   explicitStop, submitStop, isModelLoading, error,
                   camListPending, isStreamActive, srcObject, camPending,
                   animationRef, detectedEmotion, frameVars, deviceVars,
                   theme>>

\* What the awaited detection of one frame can produce: an exception, no
\* face, or the expression scores of the first face.
Frame(kind, scores) == [kind |-> kind, scores |-> scores]
FrameResults ==
    {Frame("error", <<>>), Frame("noface", <<>>)}
        \cup {Frame("face", m) : m \in [1..NumLabels -> FrameScores]}

\* The continuation of detectFaces after the awaited detection, for loop c.
InferDone(c, result) ==
    /\ chain[c].phase = "infer"
    /\ LET face == result.kind = "face"
           dom == IF face THEN Dominant(result.scores) ELSE <<>>
       IN /\ detections' = result.kind
          /\ expressions' = result.scores
          /\ dominantExpression' = dom
          /\ detectedEmotion' = IF face /\ Confident(dom[2]) THEN dom[1]
                                ELSE detectedEmotion
    /\ IF chain[c].active
       THEN /\ chain' = [chain EXCEPT ![c].phase = "raf"]
            /\ animationRef' = c
       ELSE /\ chain' = [chain EXCEPT ![c] = NoChain]
            /\ UNCHANGED animationRef
    /\ UNCHANGED <<currentEmotion, chatVars, dictVars, isModelLoading, error,
                   camListPending, isStreamActive, srcObject, camPending,
                   playPending, deviceVars, reactVars, theme>>

\* The animation frame requested by loop c fires: detectFaces up to its await.
FrameFire(c) ==
    /\ chain[c].phase = "raf"
    /\ chain' = IF ~VideoMounted \/ ~chain[c].active
                THEN [chain EXCEPT ![c] = NoChain]
                ELSE [chain EXCEPT ![c].phase = "infer"]
    /\ UNCHANGED <<currentEmotion, chatVars, dictVars, isModelLoading, error,
                   camListPending, isStreamActive, srcObject, camPending,
                   playPending, animationRef, detectedEmotion,
                   frameVars, deviceVars, reactVars, theme>>

(***************************************************************************)
(* Specifications.                                                         *)
(***************************************************************************)
ReactActions ==
    \/ Render
    \/ Effects

ChatActions ==
    \/ \E t \in TypedTexts : Type(t)
    \/ sendMessage
    \/ \E i \in 1..Len(requests) : \E o \in Outcomes : Respond(i, o)
    \/ clearChat

\* The chat dispatcher in a conversation that is not cleared and in which
\* every request is answered.
Replied == [kind |-> "ok", response |-> <<"H", "i">>]
ChatPath ==
    \/ \E t \in TypedTexts : Type(t)
    \/ sendMessage
    \/ \E i \in 1..Len(requests) : Respond(i, Replied)

\* The dictation controller on its error-free path.
DictationPath ==
    \/ toggleListening
    \/ MicGranted
    \/ StartTimerFire
    \/ \E t \in Transcripts : RecResult(t)
    \/ RecEnd
    \/ RestartTimerFire

\* One dictation session: it is started and delivers a result, and does
\* not end.
DictationSession ==
    \/ toggleListening
    \/ MicGranted
    \/ StartTimerFire
    \/ \E t \in Transcripts : RecResult(t)

DictationFailures ==
    \/ MicDenied
    \/ \E k \in ErrorKinds : RecError(k)
    \/ RetryTimerFire
    \/ Unmount

\* The camera is started and the detection loop runs, without load or
\* permission failures and without the Stop button.
StreamPath ==
    \/ ModelsLoaded
    \/ CamerasListed(TRUE)
    \/ StartClick
    \/ CameraGranted
    \/ Play
    \/ \E c \in 1..MaxChains : FrameFire(c)

\* The detection loop on frames with no face or with one label at full
\* confidence.
OneHot(l) == [i \in 1..NumLabels |-> IF LabelOrder[i] = l THEN 2 * Threshold ELSE 0]
PathFrames == {Frame("noface", <<>>)} \cup {Frame("face", OneHot(l)) : l \in Labels}
DetectionPath ==
    \/ StreamPath
    \/ \E c \in 1..MaxChains : \E r \in PathFrames : InferDone(c, r)

\* The detection loop on every frame result.
GatePath ==
    \/ StreamPath
    \/ \E c \in 1..MaxChains : \E r \in FrameResults : InferDone(c, r)

\* The detection loop of the first start of the camera, on frames with no
\* face or with the second or the third label at full confidence.
FeedFrames ==
    {Frame("noface", <<>>), Frame("face", OneHot(LabelOrder[2])),
     Frame("face", OneHot(LabelOrder[3]))}
EmotionFeed ==
    \/ ModelsLoaded
    \/ StartClick
    \/ CameraGranted
    \/ Play
    \/ FrameFire(1)
    \/ \E r \in FeedFrames : InferDone(1, r)

\* The camera is started, stopped and started again; of the loops that
\* start, the first analyses frames: with no face, with every label at the
\* threshold, with the second label at full confidence.
AtThreshold == [i \in 1..NumLabels |-> Threshold]
StickyFrames ==
    {Frame("noface", <<>>), Frame("face", AtThreshold),
     Frame("face", OneHot(LabelOrder[2]))}
CameraPath ==
    \/ ModelsLoaded
    \/ StartClick
    \/ StopClick
    \/ CameraGranted
    \/ Play
    \/ FrameFire(1)
    \/ \E r \in StickyFrames : InferDone(1, r)

LoadFailures ==
    \/ ModelsFailed
    \/ CamerasListed(FALSE)
    \/ CameraDenied

DetectionActions ==
    \/ GatePath
    \/ LoadFailures
    \/ StopClick
    \/ Unmount

\* The whole program.
Next == ChatActions \/ DictationPath \/ DictationFailures \/ DetectionActions
            \/ toggleTheme \/ ReactActions
Spec == Init /\ [][Next]_vars

\* The chat dispatcher.
NextDispatch == ChatActions \/ Render
SpecDispatch == Init /\ [][NextDispatch]_vars

\* The chat dispatcher together with the dictation controller that feeds it.
NextChat == ChatPath \/ DictationPath \/ ReactActions
SpecChat == Init /\ [][NextChat]_vars

\* The chat dispatcher with every outcome of a request and the Clear
\* button, together with a dictation session.
NextRequests == ChatActions \/ DictationSession \/ ReactActions
SpecRequests == Init /\ [][NextRequests]_vars

\* The chat dispatcher together with the detection loop that feeds it.
NextEmotion == ChatPath \/ clearChat \/ DetectionPath \/ ReactActions
SpecEmotion == Init /\ [][NextEmotion]_vars

\* The Clear button in a conversation, with a dictation session and the
\* detection loop.
NextClear == ChatPath \/ clearChat \/ DictationSession \/ EmotionFeed
                \/ ReactActions
SpecClear == Init /\ [][NextClear]_vars

\* The dictation controller.
NextDictation == DictationPath \/ DictationFailures \/ ReactActions
SpecDictation == Init /\ [][NextDictation]_vars

\* The FaceDetection component and the emotion it hands to App.
NextDetect == DetectionActions \/ ReactActions
SpecDetect == Init /\ [][NextDetect]_vars

\* The detection loop of a started camera and its confidence gate.
NextGate == GatePath \/ toggleTheme \/ ReactActions
SpecGate == Init /\ [][NextGate]_vars

\* The camera started, stopped and restarted while a message is typed,
\* submitted and cleared, dictation is switched on and off, and until the
\* page is left.
NextSticky ==
    \/ CameraPath
    \/ Type(<<"a">>) \/ sendMessage \/ clearChat
    \/ toggleListening \/ MicGranted \/ StartTimerFire
    \/ Unmount
    \/ ReactActions
SpecSticky == Init /\ [][NextSticky]_vars

\* Loading the models and starting the camera, with their failures.
NextLoad == DetectionPath \/ LoadFailures \/ ReactActions
SpecLoad == Init /\ [][NextLoad]_vars

\* The max-reduce, on every mapping of up to NumLabels labels.
InitDominant ==
    /\ InitApp /\ InitChat /\ InitDictation /\ InitDetection /\ InitDevices
    /\ detections = "face"
    /\ expressions \in UNION {[1..n -> Scores] : n \in 1..NumLabels}
    /\ dominantExpression = <<>>
    /\ InitRendered

ReduceStep ==
    /\ dominantExpression = <<>>
    /\ dominantExpression' = Dominant(expressions)
    /\ UNCHANGED <<currentEmotion, chatVars, dictVars, detectVars, detections,
                   expressions, deviceVars, theme, reactVars>>

SpecDominant == InitDominant /\ [][ReduceStep]_vars

(***************************************************************************)
(* Properties.                                                             *)
(***************************************************************************)
Last(s) == s[Len(s)]

\* C1: at most one chat request is outstanding in every reachable state: no
\* submission is accepted while an earlier request has not completed.
C1_OneRequestOutstanding == Len(requests) <= 1

\* C1 witness: after a request that failed, a request is outstanding, the
\* transcript has been cleared under it and the input shows text that
\* dictation put there, so only the disabled controls hold the next
\* submission back.
C1_Witness ==
    /\ Len(requests) = 1 /\ ~IsBlank(rendered.input)
    /\ messages = <<>>
    /\ settled.kind \in FailureKinds

\* C2: the busy flag is set by an accepted submission, cleared by the
\* completion of the request whatever its outcome, and true exactly while a
\* request is outstanding.
C2_BusyWhileOutstanding ==
    [][ /\ (Len(requests') > Len(requests) => isLoading')
        /\ (Len(requests') < Len(requests) => ~isLoading')
        /\ (isLoading' <=> requests' # <<>>) ]_vars

\* C2 witness: a request that failed has completed, the fallback message is
\* in the transcript and the busy flag is clear.
C2_Witness ==
    /\ messages # <<>>
    /\ Last(messages) = [role |-> "assistant", content |-> Fallback]
    /\ requests = <<>>
    /\ ~isLoading

\* C3: the system message of every request that is sent names the label the
\* detection loop promoted last before the send ("neutral" when it promoted
\* none), never an older one.
C3_PromptHasLatestEmotion ==
    [][ Len(requests') > Len(requests) =>
            LET system == Last(requests')[1]
            IN /\ system.role = "system"
               /\ system.content[2] =
                      IF detectedEmotion = Null THEN "neutral" ELSE detectedEmotion ]_vars

\* A step of a detection loop: its awaited detection resolves (it draws and
\* requests the next frame), or its frame callback starts a detection.
Draws(c) == chain[c].phase = "infer" /\ chain'[c].phase # "infer"
Schedules(c) == chain[c].phase # "raf" /\ chain'[c].phase = "raf"
Infers(c) == chain[c].phase # "infer" /\ chain'[c].phase = "infer"

\* C4: once the stream is stopped no detection cycle runs: no inference is
\* started, nothing is drawn and no next frame is requested.
C4_NoCycleAfterStop ==
    [][ ~isStreamActive =>
            \A c \in 1..MaxChains : ~Draws(c) /\ ~Schedules(c) /\ ~Infers(c) ]_vars

TimersPending ==
    startTimers + restartTimers[TRUE] + restartTimers[FALSE] + nestedTimers
        + (IF retryTimer THEN 1 ELSE 0)

\* C5: while listening, a network error raises the reconnecting flag and
\* leaves the controller listening, the end event that follows leaves it
\* listening, and the retry timer issues one stop and schedules one start.
C5_NetworkErrorReconnects ==
    [][ /\ (~networkError /\ networkError' => isListening' = isListening)
        /\ (mounted /\ isListening /\ networkError
               /\ recognition # "off" /\ recognition' = "off" => isListening')
        /\ (mounted' /\ isListening /\ networkError /\ retryTimer /\ ~retryTimer'
               => nestedTimers' = nestedTimers + 1) ]_vars

\* C6: an explicit stop of dictation leaves no restart timer pending, and
\* from then until dictation is toggled on again the recognizer is not
\* started.
C6_StopCancelsRestarts ==
    [][ /\ (~explicitStop /\ explicitStop' =>
                /\ restartTimers'[TRUE] = 0 /\ restartTimers'[FALSE] = 0
                /\ ~retryTimer' /\ nestedTimers' = 0)
        /\ (explicitStop /\ explicitStop' =>
                ~(recognition # "on" /\ recognition' = "on")) ]_vars

\* C7: the teardown cancels every pending restart timer, and after it no
\* timer starts the recognizer or updates the state.
C7_TeardownCancelsTimers ==
    [][ /\ (mounted /\ ~mounted' => TimersPending' = 0)
        /\ (~mounted /\ TimersPending' < TimersPending =>
                /\ recognition' = recognition
                /\ isListening' = isListening
                /\ networkError' = networkError
                /\ permissionError' = permissionError) ]_vars

\* A frame has been analyzed in this step.
FrameStep == \E c \in 1..MaxChains : Draws(c)

\* The frame analyzed in this step has a face whose dominant score is above
\* the gate.
Promotes == FrameStep /\ detections' = "face" /\ dominantExpression'[2] > Threshold

\* C8: a frame with no face, or whose dominant score is not above 0.5,
\* leaves the emotion the loop hands to App, and the current emotion, as
\* they were; a frame whose dominant score is above 0.5 replaces the emotion
\* handed over by its dominant label; no other step changes that emotion.
C8_StickyGate ==
    [][ /\ detectedEmotion' = IF Promotes THEN dominantExpression'[1]
                              ELSE detectedEmotion
        /\ (FrameStep => currentEmotion' = currentEmotion) ]_vars

\* C8 witness: a face frame at the threshold has been analyzed and the
\* emotion promoted earlier, another label, is still the current one.
C8_Witness ==
    /\ detections = "face"
    /\ dominantExpression[2] = Threshold
    /\ currentEmotion # Null
    /\ currentEmotion # dominantExpression[1]
    /\ currentEmotion = detectedEmotion

\* C9: the dominant label of a non-empty mapping has a score that is at
\* least the score of every label of the mapping.
C9_DominantIsMaximum ==
    dominantExpression # <<>> =>
        /\ \E i \in 1..Len(expressions) :
               dominantExpression = <<LabelOrder[i], expressions[i]>>
        /\ \A i \in 1..Len(expressions) : expressions[i] <= dominantExpression[2]

\* C9 witness: the dominant of a mapping whose maximum is neither its first
\* nor its last entry has been computed.
C9_Witness ==
    /\ dominantExpression # <<>>
    /\ Len(expressions) = 3
    /\ expressions[1] < expressions[2]
    /\ expressions[3] < expressions[2]

IsMaximum(i) == \A j \in 1..Len(expressions) : expressions[j] <= expressions[i]
MaximumAt == {i \in 1..Len(expressions) : IsMaximum(i)}

\* C10 as stated: among the labels that share the maximum score the
\* dominant label is the first in iteration order.
C10_FirstOnTie ==
    dominantExpression # <<>> =>
        dominantExpression[1] = LabelOrder[CHOOSE i \in MaximumAt : \A j \in MaximumAt : i <= j]

\* C10 amended: among the labels that share the maximum score the dominant
\* label is the last in iteration order.
C10_LastOnTie ==
    dominantExpression # <<>> =>
        dominantExpression[1] = LabelOrder[CHOOSE i \in MaximumAt : \A j \in MaximumAt : j <= i]

\* C10 witness: the dominant of a mapping in which two labels share the
\* maximum score has been computed.
C10_Witness ==
    /\ dominantExpression # <<>>
    /\ Cardinality(MaximumAt) >= 2

\* A request completes in this step; a request is issued in this step.
Completes == Len(requests') < Len(requests)
Issues == Len(requests') > Len(requests)

FallbackMessage == [role |-> "assistant", content |-> Fallback]

\* C11: a request that fails (fetch rejects, status not 2xx, body not JSON or
\* without result.response) completes by appending exactly the fallback
\* message and issuing no further request; a request is issued only by a
\* submission, one per user message appended.
C11_FailureGivesOneFallback ==
    [][ /\ (Completes /\ settled'.kind \in FailureKinds =>
                /\ messages' = Append(messages, FallbackMessage)
                /\ Len(requests') = Len(requests) - 1)
        /\ (Issues =>
                /\ Len(requests') = Len(requests) + 1
                /\ Len(messages') = Len(messages) + 1
                /\ Last(messages').role = "user") ]_vars

\* C11 witness: after a successful exchange a second request has failed
\* with a body that has no result.response, and the fallback was appended.
C11_Witness ==
    /\ settled.kind = "noresponse"
    /\ Len(messages) = 4
    /\ messages[2].content # Fallback
    /\ messages[4] = FallbackMessage
    /\ requests = <<>>

\* C12 as stated: a request that completes with a 2xx status and a body whose
\* result.response is r appends exactly the assistant message r.
C12_ResponseAppended ==
    [][ Completes /\ settled'.kind = "ok" =>
            messages' = Append(messages, [role |-> "assistant",
                                          content |-> settled'.response]) ]_vars

\* C12 amended: the same, for every r that is not the empty text.
C12_NonEmptyResponseAppended ==
    [][ Completes /\ settled'.kind = "ok" /\ settled'.response # <<>> =>
            messages' = Append(messages, [role |-> "assistant",
                                          content |-> settled'.response]) ]_vars

\* C12 witness: a request completed with a non-empty result.response, which
\* is the last message of the transcript.
C12_Witness ==
    /\ settled.kind = "ok" /\ settled.response # <<>>
    /\ messages # <<>>
    /\ Last(messages) = [role |-> "assistant", content |-> settled.response]
    /\ requests = <<>>

\* C13: the message list of a request that is issued is the system message
\* naming the current emotion the chat was rendered with ("neutral" when
\* there is none), then the transcript as it was before the submission
\* without its system entries, then the submitted user message.
C13_PayloadOrder ==
    [][ Issues =>
            LET payload == Last(requests')
                n == Len(payload)
            IN /\ n >= 2
               /\ payload[1].role = "system"
               /\ payload[1].content = SystemPrompt(rendered.currentEmotion)
               /\ payload[1].content[2] =
                      IF rendered.currentEmotion = Null THEN "neutral"
                      ELSE rendered.currentEmotion
               /\ SubSeq(payload, 2, n - 1) =
                      SelectSeq(messages, LAMBDA m : m.role # "system")
               /\ payload[n] = [role |-> "user", content |-> rendered.input]
               /\ payload[n] = Last(messages') ]_vars

\* C13 witness: a request is in flight that carries an emotion, a history of
\* two messages and the user message.
C13_Witness ==
    /\ Len(requests) = 1
    /\ Len(requests[1]) = 4
    /\ requests[1][1].content[2] \in Labels
    /\ requests[1][2].role = "user" /\ requests[1][3].role = "assistant"
    /\ requests[1][4] = Last(messages)

\* C16: the stored transcript holds user and assistant messages only.
C16_NoSystemStored ==
    \A i \in 1..Len(messages) : messages[i].role \in {"user", "assistant"}

\* C16 witness: the transcript holds a user message and the reply to it while
\* a second request, which carries a system message, is in flight.
C16_Witness ==
    /\ Len(messages) = 3
    /\ Len(requests) = 1
    /\ requests[1][1].role = "system"

\* The dictation state without the binding of onend.
DictationState ==
    <<speechSupported, isListening, networkError, permissionError, recognition,
      micPending, startTimers, restartTimers, retryTimer, nestedTimers, mounted,
      explicitStop, submitStop>>

\* C14: while the text in the input is empty or only whitespace a
\* submission does nothing: no step issues a request, appends a user
\* message or sets the busy flag; the input text changes only by typing or
\* by a dictation result, and the dictation state only by the steps of
\* dictation.
C14_BlankSubmitNoOp ==
    [][ Trim(rendered.input) = <<>> =>
            /\ ~Issues
            /\ (isLoading' => isLoading)
            /\ (Len(messages') > Len(messages) => Last(messages').role = "assistant")
            /\ (input' # input =>
                    \/ \E t \in TypedTexts : Type(t)
                    \/ \E t \in Transcripts : RecResult(t))
            /\ (DictationState' # DictationState => DictationPath) ]_vars

\* C14 witness: the input shows whitespace only while dictation is listening,
\* the transcript is not empty and no request is in flight.
C14_Witness ==
    /\ rendered.input = <<SP>>
    /\ rendered.isListening
    /\ messages # <<>>
    /\ ~rendered.isLoading

\* The transcript is cleared in this step.
Clears == messages # <<>> /\ messages' = <<>>

\* C15 as stated: the step that clears the transcript leaves the current
\* emotion as it was.
C15_EmotionUnchanged == [][ Clears => currentEmotion' = currentEmotion ]_vars

\* C15: the step that clears the transcript changes neither the busy flag,
\* the input, the request in flight nor the dictation state, and renders the
\* empty transcript and nothing else new.  It does not reset the current
\* emotion: that stays as it was or becomes the emotion FaceDetection was
\* last rendered with.
C15_ClearKeepsRest ==
    [][ Clears =>
            /\ currentEmotion' \in {currentEmotion, rendered.detectedEmotion}
            /\ (currentEmotion # Null => currentEmotion' # Null)
            /\ detectedEmotion' = detectedEmotion
            /\ isLoading' = isLoading
            /\ input' = input
            /\ requests' = requests
            /\ DictationState' = DictationState
            /\ rendered' = [rendered EXCEPT !.messages = <<>>] ]_vars

\* C15 witness: the transcript has been cleared while an emotion is current,
\* a request is in flight, dictation is listening and its result is in the
\* input.
C15_Witness ==
    /\ messages = <<>>
    /\ currentEmotion # Null
    /\ isLoading /\ Len(requests) = 1
    /\ isListening /\ recognition = "ending"
    /\ input # <<>>

\* The permission request of a toggle is rejected in this step.
Rejected == micPending' < micPending /\ startTimers' = startTimers

\* C17: toggling dictation on only asks for the microphone; the start is put
\* on its timer only by a grant, listening is entered only when that timer
\* starts the recognizer; a rejection starts nothing, leaves the controller
\* idle and sets the permission-error message.
C17_StartOnlyAfterPermission ==
    [][ /\ (micPending' > micPending =>
                /\ recognition' = recognition
                /\ isListening' = isListening
                /\ TimersPending' = TimersPending)
        /\ (startTimers' > startTimers => micPending' < micPending)
        /\ (~isListening /\ isListening' =>
                /\ startTimers' < startTimers
                /\ recognition = "off" /\ recognition' = "on")
        /\ (Rejected =>
                /\ ~isListening'
                /\ permissionError' = "denied-settings"
                /\ recognition' = recognition
                /\ TimersPending' = TimersPending) ]_vars

\* C17 witness: the permission request of a toggle was rejected: the message
\* is set, the controller is idle, the recognizer is off and nothing is
\* pending.
C17_Witness ==
    /\ permissionError = "denied-settings"
    /\ ~isListening
    /\ recognition = "off"
    /\ micPending = 0 /\ TimersPending = 0

\* C18: a recognizer error of any kind but network leaves the controller
\* idle with a permission-error message set.
C18_ErrorsSetMessage ==
    [][ \A k \in ErrorKinds \ {"network"} :
            RecError(k) => ~isListening' /\ permissionError' # Null ]_vars

\* The recognizer session ends in this step.
Ends == recognition # "off" /\ recognition' = "off"

\* C19: when the recognizer ends while the controller is listening and not
\* in the network-error condition, the controller stays listening and the
\* restart is put on its timer; when that timer fires on the ended
\* recognizer it starts it, the controller still as it was.
C19_AutoRestart ==
    [][ /\ (mounted /\ Ends /\ isListening /\ ~networkError =>
                /\ isListening'
                /\ restartTimers'[TRUE] = restartTimers[TRUE] + 1)
        /\ (restartTimers'[TRUE] < restartTimers[TRUE] /\ recognition = "off" =>
                /\ recognition' = "on"
                /\ isListening' = isListening) ]_vars

\* C20: once loading the models has failed the error stays, the stream is
\* not active, no camera request is pending and no detection loop is alive.
C20_ModelFailureIsFatal ==
    [][ /\ (error = "models" => error' = "models")
        /\ (error' = "models" =>
                /\ ~isStreamActive' /\ ~srcObject' /\ ~playPending'
                /\ camPending' = 0
                /\ \A c \in 1..MaxChains : chain'[c] = NoChain) ]_vars

\* C20 witness: loading the models has failed.
C20_Witness == error = "models" /\ isModelLoading /\ ~isStreamActive

\* The detection loops that are alive: an inference in flight or a frame
\* requested.
Alive == {c \in 1..MaxChains : chain[c] # NoChain}

\* C21: at most one detection loop is alive in every reachable state.
C21_OneDetectionLoop == Cardinality(Alive) <= 1

\* C22: every camera stream that was acquired is the video element's
\* srcObject or has its tracks stopped, and after a stop or the teardown
\* none is live.
C22_CameraReleased ==
    /\ ~strayCamera
    /\ (~isStreamActive /\ camPending = 0 => ~srcObject)
    /\ (~mounted => ~srcObject)

\* C23: after dictation was stopped explicitly, or the component was torn
\* down, no microphone stream that was acquired has a live track.
C23_MicrophoneReleased == explicitStop \/ ~mounted => ~micLive

\* Nothing is left that could act without the user: the recognizer session
\* is over, no permission request is open and no timer is pending.
Quiescent ==
    /\ recognition = "off"
    /\ micPending = 0 /\ startTimers = 0
    /\ ~retryTimer /\ nestedTimers = 0
    /\ \A c \in BOOLEAN : restartTimers[c] = 0

\* C24: while the reconnecting flag is set, a result can still arrive or a
\* restart attempt is still to run, so that the flag is cleared without the
\* user: the mounted controller never comes to rest with the flag set.
C24_ReconnectingCleared == mounted /\ networkError => ~Quiescent

\* C26: the reconnecting flag is set only while the controller is listening.
C26_ReconnectingOnlyListening == mounted /\ networkError => isListening

\* A step in which a timer callback calls recognizer.start(): the 100 ms
\* timer of toggleListening, an auto-restart timer whose callback captured
\* isListening = true, or the restart nested in the network retry.
StartInvoked ==
    \/ startTimers' < startTimers
    \/ restartTimers'[TRUE] < restartTimers[TRUE]
    \/ nestedTimers' < nestedTimers

\* C25: recognizer.start() is never called on a recognizer that is started.
C25_NoStartWhileStarted == [][StartInvoked => recognition # "on"]_vars

\* C27: the transcript alternates user and assistant messages, starting with
\* a user message (pairs, with at most one unanswered user message last).
C27_TranscriptAlternates ==
    \A i \in 1..Len(messages) :
        messages[i].role = IF i % 2 = 1 THEN "user" ELSE "assistant"

\* C28: the current emotion is null or a label; it changes only to the
\* emotion FaceDetection is rendered with, before or by that step, which
\* changes only to the emotion the loop handed over, which changes only to
\* the dominant label of the frame just analyzed, whose score is above 0.5;
\* and once the current emotion is a label no step makes it null again.
C28_EmotionSticky ==
    /\ [](currentEmotion \in Labels \cup {Null})
    /\ [][ /\ (currentEmotion' # currentEmotion =>
                   currentEmotion' \in {rendered.detectedEmotion,
                                        rendered'.detectedEmotion})
           /\ (rendered'.detectedEmotion # rendered.detectedEmotion =>
                   rendered'.detectedEmotion = detectedEmotion)
           /\ (detectedEmotion' # detectedEmotion =>
                   Promotes /\ detectedEmotion' = dominantExpression'[1])
           /\ (currentEmotion # Null => currentEmotion' # Null) ]_vars

\* C28 witness: a label is the current emotion after the camera was stopped
\* and started again (its play event is due a second time), a message was
\* submitted and the transcript cleared, and dictation is listening; the
\* frame analyzed last had no face.
C28_Witness ==
    /\ currentEmotion \in Labels
    /\ detections = "noface"
    /\ playPending
    /\ messages = <<>> /\ requests # <<>>
    /\ isListening
    /\ rendered = View

\* A step in which onresult appends recognized text to the input.
Dictated == recognition # "ending" /\ recognition' = "ending" /\ input' # input

\* C29: a submission accepted while listening stops the recognizer and makes
\* the controller idle, and the session it stopped appends no recognized
\* text to the input the submission cleared.
C29_SubmitEndsDictation ==
    [][ /\ (isListening /\ Issues => ~isListening' /\ recognition' # "on")
        /\ (submitStop => ~Dictated) ]_vars

=============================================================================
